---- MODULE Spec2Model ----
(***************************************************************************)
(* Mucab: dictionary compiler (src/bin/converter.rs), MUCA loader and      *)
(* Viterbi segmenter (src/lib.rs).                                         *)
(*                                                                         *)
(* Strings are sequences of Unicode scalar values; their bytes are the     *)
(* UTF-8 encoding computed by Utf8.  Files and the decompressed data       *)
(* segment are sequences of bytes (0..255).                                *)
(***************************************************************************)
EXTENDS Integers, Sequences, FiniteSets, TLC

\* ---------------------------------------------------------------- bounds
\* Entries one compiler run retains.
MaxEntries == 2
\* Characters of one input text.
MaxTextLen == 3
\* Entries retained by one run of the interning specification.
MaxInternEntries == 3
\* Longest text, in characters, of the calls on damaged files.
MaxLoadTextLen == 2

\* ------------------------------------------------------ program constants
HEADER_SIZE == 16
ENTRY_METADATA_SIZE == 9
FALLBACK_COST == 10000
MAX_POS_IDS == 65535

\* ------------------------------------------------------------- utilities
Min(a, b) == IF a < b THEN a ELSE b

Range(s) == {s[i] : i \in 1..Len(s)}

RECURSIVE Flatten(_)
Flatten(ss) == IF ss = <<>> THEN <<>> ELSE Head(ss) \o Flatten(Tail(ss))

RECURSIVE SumSeq(_)
SumSeq(s) == IF s = <<>> THEN 0 ELSE Head(s) + SumSeq(Tail(s))

Reverse(s) == [i \in 1..Len(s) |-> s[Len(s) + 1 - i]]

\* Lexicographic order on sequences of integers: -1, 0, 1 as Ordering.
RECURSIVE SeqCmp(_, _)
SeqCmp(a, b) ==
    IF a = <<>> /\ b = <<>> THEN 0
    ELSE IF a = <<>> THEN -1
    ELSE IF b = <<>> THEN 1
    ELSE IF Head(a) < Head(b) THEN -1
    ELSE IF Head(a) > Head(b) THEN 1
    ELSE SeqCmp(Tail(a), Tail(b))

\* ------------------------------------------------------------------ UTF-8
\* str::as_bytes of a one-character string.
Utf8Char(c) ==
    IF c < 128 THEN <<c>>
    ELSE IF c < 2048 THEN <<192 + (c \div 64), 128 + (c % 64)>>
    ELSE IF c < 65536 THEN
        <<224 + (c \div 4096), 128 + ((c \div 64) % 64), 128 + (c % 64)>>
    ELSE <<240 + (c \div 262144), 128 + ((c \div 4096) % 64),
           128 + ((c \div 64) % 64), 128 + (c % 64)>>

\* str::as_bytes.
Utf8(s) == Flatten([i \in 1..Len(s) |-> Utf8Char(s[i])])

IsCont(b) == b >= 128 /\ b <= 191

\* String::from_utf8: [ok |-> FALSE] on an invalid sequence, else the
\* decoded scalar values.
RECURSIVE FromUtf8(_)
FromUtf8(b) ==
    IF b = <<>> THEN [ok |-> TRUE, chars |-> <<>>]
    ELSE
      LET b1 == b[1]
          n == IF b1 < 128 THEN 1
               ELSE IF b1 >= 194 /\ b1 <= 223 THEN 2
               ELSE IF b1 >= 224 /\ b1 <= 239 THEN 3
               ELSE IF b1 >= 240 /\ b1 <= 244 THEN 4
               ELSE 0
      IN IF n = 0 \/ Len(b) < n \/ \E k \in 2..n : ~IsCont(b[k])
         THEN [ok |-> FALSE, chars |-> <<>>]
         ELSE
           LET c == IF n = 1 THEN b1
                    ELSE IF n = 2 THEN (b1 - 192) * 64 + (b[2] - 128)
                    ELSE IF n = 3 THEN (b1 - 224) * 4096 + (b[2] - 128) * 64
                                       + (b[3] - 128)
                    ELSE (b1 - 240) * 262144 + (b[2] - 128) * 4096
                         + (b[3] - 128) * 64 + (b[4] - 128)
               good == /\ (n = 3 => c >= 2048 /\ ~(c >= 55296 /\ c <= 57343))
                       /\ (n = 4 => c >= 65536 /\ c <= 1114111)
               rest == FromUtf8(SubSeq(b, n + 1, Len(b)))
           IN IF good /\ rest.ok
              THEN [ok |-> TRUE, chars |-> <<c>> \o rest.chars]
              ELSE [ok |-> FALSE, chars |-> <<>>]

\* char::from_u32: a scalar value is anything up to 0x10FFFF but a surrogate.
IsScalar(c) == c >= 0 /\ c <= 1114111 /\ ~(c >= 55296 /\ c <= 57343)

\* The \p{Han} script predicate, on the Basic Multilingual Plane.
IsHan(c) ==
    \/ c >= 19968 /\ c <= 40959
    \/ c >= 13312 /\ c <= 19903
    \/ c >= 63744 /\ c <= 64255
    \/ c >= 11904 /\ c <= 12245
    \/ c \in {12293, 12295} \/ (c >= 12321 /\ c <= 12329)
    \/ (c >= 12344 /\ c <= 12347)

\* -------------------------------------------------- little-endian integers
U16Le(v) == <<v % 256, (v \div 256) % 256>>
U32Le(v) == <<v % 256, (v \div 256) % 256, (v \div 65536) % 256,
              (v \div 16777216) % 256>>
\* i16::to_le_bytes: two's complement.
I16Le(v) == U16Le((v + 65536) % 65536)

U16FromLe(b) == b[1] + 256 * b[2]
U32FromLe(b) == b[1] + 256 * b[2] + 65536 * b[3] + 16777216 * b[4]
I16FromLe(b) == LET u == U16FromLe(b) IN IF u >= 32768 THEN u - 65536 ELSE u


\* ================================================================ compiler
\* A CSV line after line.split(','): nparts parts, of which the compiler
\* reads parts[0] (surface), parts[1]/parts[2] (context ids, a decimal
\* string stood for by its number), parts[3] (word cost, a sequence of
\* one-character strings) and parts[12] (reading).
Digits == <<"0", "1", "2", "3", "4", "5", "6", "7", "8", "9">>

DigitVal(c) == CHOOSE d \in 0..9 : Digits[d + 1] = c

\* str::parse::<i32>: an optional sign, then one or more decimal digits,
\* accumulated with checked arithmetic; anything else is an Err.
RECURSIVE ParseDigits(_, _, _)
ParseDigits(ds, acc, neg) ==
    IF ds = <<>> THEN [ok |-> TRUE, val |-> acc]
    ELSE IF Head(ds) \notin Range(Digits) THEN [ok |-> FALSE, val |-> 0]
    ELSE
      LET d == DigitVal(Head(ds))
          m == IF neg THEN 0 - acc ELSE acc
          fits == m < 214748364 \/ (m = 214748364 /\ d <= (IF neg THEN 8 ELSE 7))
      IN IF ~fits THEN [ok |-> FALSE, val |-> 0]
         ELSE ParseDigits(Tail(ds), IF neg THEN acc * 10 - d ELSE acc * 10 + d, neg)

ParseI32(s) ==
    IF s = <<>> THEN [ok |-> FALSE, val |-> 0]
    ELSE IF Head(s) \in {"+", "-"}
         THEN IF Tail(s) = <<>> THEN [ok |-> FALSE, val |-> 0]
              ELSE ParseDigits(Tail(s), 0, Head(s) = "-")
    ELSE ParseDigits(s, 0, FALSE)

\* parts[3].parse().unwrap_or(0)
ParseCost(field) == LET r == ParseI32(field) IN IF r.ok THEN r.val ELSE 0

\* The cost check of process_csv_files: TRUE when the line is skipped.
CostOutOfRange(cost) == cost < -32768 \/ cost > 32767

\* Regex ^\p{Han}+ is_match: the surface begins with a Han character.
HanRegexMatch(surface) == surface # <<>> /\ IsHan(surface[1])

\* pos_id_map, a HashMap<String, u16>, is the set of its (id, pos_id)
\* pairs.
EmptyPosIdMap == {}
Interned(map, id) == \E p \in map : p.id = id
PosIdOf(map, id) == (CHOOSE p \in map : p.id = id).pos_id

\* The id the or_insert_with closure would hand out: pos_id_map.len() as u16.
NextPosId(map) == Cardinality(map) % 65536

\* The closure's capacity check.
TooManyPosIdsMut(id) == id = MAX_POS_IDS - 1
TooManyPosIds(id) == id = MAX_POS_IDS

\* One iteration of "for line in decoded.lines()" on the compiler state
\* st = [map, entries, panicked].
ProcessLineOp(st, line) ==
    IF line.nparts < 13 THEN st
    ELSE IF ~HanRegexMatch(line.surface) THEN st
    ELSE IF Len(Utf8(line.surface)) > 255 THEN st
    ELSE IF line.left_id # line.right_id THEN [st EXCEPT !.panicked = TRUE]
    ELSE
      LET cost == ParseCost(line.cost) IN
      IF CostOutOfRange(cost) THEN st
      ELSE IF Len(Utf8(line.reading)) > 255 THEN st
      ELSE IF Interned(st.map, line.left_id)
      THEN [st EXCEPT !.entries = Append(@,
               [surface |-> line.surface, pos_id |-> PosIdOf(st.map, line.left_id),
                cost |-> cost, reading |-> line.reading])]
      ELSE
        LET id == NextPosId(st.map) IN
        IF TooManyPosIds(id) THEN [st EXCEPT !.panicked = TRUE]
        ELSE [st EXCEPT
                !.map = @ \cup {[id |-> line.left_id, pos_id |-> id]},
                !.entries = Append(@,
                   [surface |-> line.surface, pos_id |-> id,
                    cost |-> cost, reading |-> line.reading])]

\* The comparator of entries.sort_by: first character, then surface bytes.
EntryCmp(a, b) ==
    IF a.surface # <<>> /\ b.surface # <<>>
    THEN IF a.surface[1] < b.surface[1] THEN -1
         ELSE IF a.surface[1] > b.surface[1] THEN 1
         ELSE SeqCmp(Utf8(a.surface), Utf8(b.surface))
    ELSE SeqCmp(Utf8(a.surface), Utf8(b.surface))

\* Stable insertion of e after every element not greater than it.
RECURSIVE InsertSorted(_, _)
InsertSorted(s, e) ==
    IF s = <<>> THEN <<e>>
    ELSE IF EntryCmp(e, Head(s)) < 0 THEN <<e>> \o s
    ELSE <<Head(s)>> \o InsertSorted(Tail(s), e)

\* slice::sort_by (stable).
RECURSIVE SortEntriesFrom(_, _)
SortEntriesFrom(done, todo) ==
    IF todo = <<>> THEN done
    ELSE SortEntriesFrom(InsertSorted(done, Head(todo)), Tail(todo))

SortEntries(es) == SortEntriesFrom(<<>>, es)

\* str::parse::<i16>().unwrap_or(0) of a matrix.def cost, given by value.
ParseI16OrZero(v) == IF v < -32768 \/ v > 32767 THEN 0 ELSE v

\* load_matrix: the S x S matrix, row-major, as a sequence (cell i at i+1).
RECURSIVE ApplyTriples(_, _, _)
ApplyTriples(matrix, triples, map) ==
    IF triples = <<>> THEN matrix
    ELSE
      LET t == Head(triples)
          size == Cardinality(map)
          next == IF Interned(map, t.prev) /\ Interned(map, t.curr)
                  THEN [matrix EXCEPT
                          ![PosIdOf(map, t.prev) * size + PosIdOf(map, t.curr) + 1] =
                            ParseI16OrZero(t.cost)]
                  ELSE matrix
      IN ApplyTriples(next, Tail(triples), map)

LoadMatrix(triples, map) ==
    LET size == Cardinality(map) IN
    [matrix |-> ApplyTriples([i \in 1..(size * size) |-> 0], triples, map),
     matrix_size |-> size]


\* ------------------------------------------------------------ write_binary
\* "as u32" of a usize.  The model's integers stay below 2^31, where the
\* cast changes nothing.
AsU32(v) == v

\* The overlap search: the first start in search_start..len whose suffix
\* equals a prefix of the reading gives the overlap; 0 when there is none.
OverlapStarts(pool, rb) ==
    LET n == Len(pool)
        search_start == IF n >= Len(rb) THEN n - Len(rb) ELSE 0
    IN {start \in search_start..(n - 1) :
          /\ n - start <= Len(rb)
          /\ SubSeq(pool, start + 1, n) = SubSeq(rb, 1, n - start)}

BestOverlapShortest(pool, rb) ==
    LET starts == OverlapStarts(pool, rb) IN
    IF starts = {} THEN 0
    ELSE Len(pool) - (CHOOSE m \in starts : \A o \in starts : m >= o)

BestOverlap(pool, rb) ==
    LET starts == OverlapStarts(pool, rb) IN
    IF starts = {} THEN 0
    ELSE Len(pool) - (CHOOSE m \in starts : \A o \in starts : m <= o)

\* reading_offset of a reading appended to a pool with the given overlap.
ReadingOffset(pool, overlap) == AsU32(Len(pool) - overlap)

\* The first loop of write_binary: the string pool and the entry records
\* (surface bytes, reading_offset, reading_len, pos_id, cost).
RECURSIVE PackReadings(_, _, _)
PackReadings(es, pool, recs) ==
    IF es = <<>> THEN [strings_data |-> pool, entry_records |-> recs]
    ELSE
      LET e == Head(es)
          rb == Utf8(e.reading)
          best_overlap == BestOverlap(pool, rb)
          rec == [surf_bytes |-> Utf8(e.surface),
                  reading_offset |-> ReadingOffset(pool, best_overlap),
                  reading_len |-> Len(rb) % 256,
                  pos_id |-> e.pos_id,
                  cost |-> e.cost]
      IN PackReadings(Tail(es),
                      pool \o SubSeq(rb, best_overlap + 1, Len(rb)),
                      Append(recs, rec))

\* Size of one entry record in the data segment.
RecordSizeNoLenByte(rec) == Len(rec.surf_bytes) + 9

RecordSize(rec) == 1 + Len(rec.surf_bytes) + 9

\* The second loop of write_binary, on the state
\* [index, current_char, current_byte_offset, current_count, byte_offset];
\* current_char is -1 for None.
RECURSIVE IndexLoop(_, _, _)
IndexLoop(es, recs, w) ==
    IF es = <<>> THEN w
    ELSE
      LET e == Head(es)
          w1 == IF e.surface = <<>> THEN w
                ELSE IF e.surface[1] # w.current_char
                THEN [w EXCEPT
                        !.index = IF w.current_char # -1
                                  THEN Append(@, [ch |-> w.current_char,
                                                  byte_offset |-> w.current_byte_offset,
                                                  count |-> w.current_count])
                                  ELSE @,
                        !.current_char = e.surface[1],
                        !.current_byte_offset = w.byte_offset,
                        !.current_count = 1]
                ELSE [w EXCEPT !.current_count = (@ + 1) % 65536]
          w2 == [w1 EXCEPT !.byte_offset = AsU32(@ + RecordSize(Head(recs)))]
      IN IndexLoop(Tail(es), Tail(recs), w2)

BuildIndex(es, recs) ==
    LET w == IndexLoop(es, recs,
                       [index |-> <<>>, current_char |-> -1,
                        current_byte_offset |-> 0, current_count |-> 0,
                        byte_offset |-> 0])
    IN IF w.current_char # -1
       THEN Append(w.index, [ch |-> w.current_char,
                             byte_offset |-> w.current_byte_offset,
                             count |-> w.current_count])
       ELSE w.index

\* Bytes of one entry record as the encoder receives them.
RecordBytesCostFirst(rec) ==
    <<Len(rec.surf_bytes) % 256>> \o rec.surf_bytes \o U32Le(rec.reading_offset)
    \o <<rec.reading_len>> \o I16Le(rec.cost) \o U16Le(rec.pos_id)

RecordBytes(rec) ==
    <<Len(rec.surf_bytes) % 256>> \o rec.surf_bytes \o U32Le(rec.reading_offset)
    \o <<rec.reading_len>> \o U16Le(rec.pos_id) \o I16Le(rec.cost)

IndexRecordBytes(r) == U32Le(r.ch) \o U32Le(r.byte_offset) \o U16Le(r.count)

Magic == <<77, 85, 67, 65>>

\* write_binary: the locals at return and the file written.  The file is
\* its plain part (header, matrix, index directory) and the decompressed
\* content of the compressed segment; the codec itself is opaque.
WriteBinary(es, matrix, matrix_size) ==
    LET packed == PackReadings(es, <<>>, <<>>)
        recs == packed.entry_records
        index == BuildIndex(es, recs)
        entry_array_size ==
            AsU32(SumSeq([i \in 1..Len(recs) |-> RecordSize(recs[i])]))
        header == Magic \o U16Le(1) \o U16Le(matrix_size)
                  \o U32Le(AsU32(Len(es))) \o U32Le(entry_array_size)
        matrix_bytes == Flatten([i \in 1..Len(matrix) |-> I16Le(matrix[i])])
        index_bytes == U32Le(AsU32(Len(index)))
                       \o Flatten([i \in 1..Len(index) |-> IndexRecordBytes(index[i])])
        data == Flatten([i \in 1..Len(recs) |-> RecordBytes(recs[i])])
                \o packed.strings_data
    IN [strings_data |-> packed.strings_data,
        entry_records |-> recs,
        index |-> index,
        file |-> [plain |-> header \o matrix_bytes \o index_bytes,
                  data |-> data,
                  codec_ok |-> TRUE]]


\* ================================================================== loader
\* The empty HashMap.
EmptyMap == <<>>

\* Read::read_exact of n bytes at 0-based position p: ok is FALSE when the
\* source ends first.
ReadExact(bytes, p, n) ==
    IF p + n <= Len(bytes)
    THEN [ok |-> TRUE, buf |-> SubSeq(bytes, p + 1, p + n)]
    ELSE [ok |-> FALSE, buf |-> <<>>]

\* The index loop of Dictionary::load from position p of the plain part:
\* status "ok" with the index read, "err" when read_exact fails, "panic"
\* when char::from_u32(..).unwrap() meets a value that is no scalar.
RECURSIVE ReadIndex(_, _, _, _)
ReadIndex(plain, p, left, index) ==
    IF left = 0 THEN [status |-> "ok", index |-> index]
    ELSE
      LET rec == ReadExact(plain, p, 10) IN
      IF ~ReadExact(plain, p, 4).ok THEN [status |-> "err", index |-> index]
      ELSE IF ~IsScalar(U32FromLe(ReadExact(plain, p, 4).buf))
      THEN [status |-> "panic", index |-> index]
      ELSE IF ~rec.ok THEN [status |-> "err", index |-> index]
      ELSE
        LET ch == U32FromLe(SubSeq(rec.buf, 1, 4))
            byte_offset == U32FromLe(SubSeq(rec.buf, 5, 8))
            count == U16FromLe(SubSeq(rec.buf, 9, 10))
            entry == [byte_offset |-> byte_offset, count |-> count]
        IN ReadIndex(plain, p + 10, left - 1,
                     IF ch \in DOMAIN index
                     THEN [index EXCEPT ![ch] = entry]
                     ELSE index @@ (ch :> entry))

\* bulk_reads lists the characters whose block bulk_read_entries has read
\* from the decoder, in the order of the reads.
NoDict == [strings_offset |-> 0, num_entries |-> 0, index |-> EmptyMap,
           entry_cache |-> EmptyMap, matrix |-> <<>>, matrix_size |-> 0,
           data |-> <<>>, bulk_reads |-> <<>>]

\* Dictionary::load: status "ok" (Ok(Dictionary)), "err" (Err) or "panic".
Load(file) ==
    LET header == ReadExact(file.plain, 0, HEADER_SIZE) IN
    IF ~header.ok THEN [status |-> "err", dict |-> NoDict]
    ELSE IF SubSeq(header.buf, 1, 4) # Magic THEN [status |-> "err", dict |-> NoDict]
    ELSE
      LET matrix_size == U16FromLe(SubSeq(header.buf, 7, 8))
          num_entries == U32FromLe(SubSeq(header.buf, 9, 12))
          strings_offset == U32FromLe(SubSeq(header.buf, 13, 16))
          matrix_elements == matrix_size * matrix_size
          mb == ReadExact(file.plain, HEADER_SIZE, matrix_elements * 2)
      IN
      IF ~mb.ok THEN [status |-> "err", dict |-> NoDict]
      ELSE
        LET matrix == [i \in 1..matrix_elements |->
                          I16FromLe(SubSeq(mb.buf, 2 * i - 1, 2 * i))]
            p == HEADER_SIZE + matrix_elements * 2
            cnt == ReadExact(file.plain, p, 4)
        IN
        IF ~cnt.ok THEN [status |-> "err", dict |-> NoDict]
        ELSE
          LET ri == ReadIndex(file.plain, p + 4, U32FromLe(cnt.buf), EmptyMap) IN
          IF ri.status # "ok" THEN [status |-> ri.status, dict |-> NoDict]
          ELSE IF ~file.codec_ok THEN [status |-> "err", dict |-> NoDict]
          ELSE [status |-> "ok",
                dict |-> [strings_offset |-> strings_offset,
                          num_entries |-> num_entries,
                          index |-> ri.index,
                          entry_cache |-> EmptyMap,
                          matrix |-> matrix,
                          matrix_size |-> matrix_size,
                          data |-> file.data,
                          bulk_reads |-> <<>>]]

\* The loop of bulk_read_entries from stream position p; ok is FALSE when
\* an unwrap() panics (a short read or invalid UTF-8 in a surface).
RECURSIVE ReadEntries(_, _, _, _)
ReadEntries(data, p, left, acc) ==
    IF left = 0 THEN [ok |-> TRUE, entries |-> acc]
    ELSE
      LET sl == ReadExact(data, p, 1) IN
      IF ~sl.ok THEN [ok |-> FALSE, entries |-> acc]
      ELSE
        LET surf_len == sl.buf[1]
            sb == ReadExact(data, p + 1, surf_len)
            eb == ReadExact(data, p + 1 + surf_len, ENTRY_METADATA_SIZE)
        IN
        IF ~sb.ok \/ ~eb.ok THEN [ok |-> FALSE, entries |-> acc]
        ELSE
          LET surface == FromUtf8(sb.buf) IN
          IF ~surface.ok THEN [ok |-> FALSE, entries |-> acc]
          ELSE ReadEntries(data, p + 1 + surf_len + ENTRY_METADATA_SIZE, left - 1,
                 Append(acc,
                   [surface |-> surface.chars,
                    pos_id |-> U16FromLe(SubSeq(eb.buf, 6, 7)),
                    word_cost |-> I16FromLe(SubSeq(eb.buf, 8, 9)),
                    reading_offset |-> U32FromLe(SubSeq(eb.buf, 1, 4)),
                    reading_len |-> eb.buf[5]]))

\* Dictionary::bulk_read_entries; the caller has checked the index key.
BulkReadEntries(d, first_char) ==
    LET e == d.index[first_char] IN
    IF e.byte_offset > Len(d.data) THEN [ok |-> FALSE, entries |-> <<>>]
    ELSE ReadEntries(d.data, e.byte_offset, e.count, <<>>)

\* Dictionary::read_reading_at; ok is FALSE when an unwrap() panics.
ReadReadingAt(d, offset, len) ==
    LET rb == ReadExact(d.data, d.strings_offset + offset, len) IN
    IF ~rb.ok THEN [ok |-> FALSE, reading |-> <<>>]
    ELSE LET r == FromUtf8(rb.buf) IN
         [ok |-> r.ok, reading |-> r.chars]

\* Dictionary::get_matrix_cost.
GetMatrixCost(d, prev_id, curr_id) ==
    LET idx == prev_id * d.matrix_size + curr_id IN
    IF idx < Len(d.matrix) THEN d.matrix[idx + 1] ELSE 0

\* Dictionary::get_entry: ok is FALSE when the indexing panics.
GetEntry(d, first_char, local_idx) ==
    IF first_char \in DOMAIN d.entry_cache
       /\ local_idx < Len(d.entry_cache[first_char])
    THEN [ok |-> TRUE, entry |-> d.entry_cache[first_char][local_idx + 1]]
    ELSE [ok |-> FALSE, entry |-> <<>>]

\* Dictionary::lookup: the matches and the dictionary with its cache
\* filled; ok is FALSE when bulk_read_entries panics.
LookupRereading(d, chars, start) ==
    IF start >= Len(chars) THEN [ok |-> TRUE, matches |-> <<>>, dict |-> d]
    ELSE
      LET first_char == chars[start + 1] IN
      IF first_char \notin DOMAIN d.index
      THEN [ok |-> TRUE, matches |-> <<>>, dict |-> d]
      ELSE
        LET cached == FALSE
            br == IF cached THEN [ok |-> TRUE, entries |-> <<>>]
                  ELSE BulkReadEntries(d, first_char)
        IN
        IF ~br.ok THEN [ok |-> FALSE, matches |-> <<>>, dict |-> d]
        ELSE
          LET d1 == IF cached THEN d
                    ELSE [d EXCEPT !.entry_cache = @ @@ (first_char :> br.entries),
                                   !.bulk_reads = Append(@, first_char)]
              es == d1.entry_cache[first_char]
              hit(i) == /\ start + Len(es[i].surface) <= Len(chars)
                        /\ \A j \in 1..Len(es[i].surface) :
                              chars[start + j] = es[i].surface[j]
              RECURSIVE Collect(_)
              Collect(i) == IF i > Len(es) THEN <<>>
                            ELSE (IF hit(i) THEN <<<<first_char, i - 1>>>> ELSE <<>>)
                                 \o Collect(i + 1)
          IN [ok |-> TRUE, matches |-> Collect(1), dict |-> d1]

LookupFirstCharOnly(d, chars, start) ==
    IF start >= Len(chars) THEN [ok |-> TRUE, matches |-> <<>>, dict |-> d]
    ELSE
      LET first_char == chars[start + 1] IN
      IF first_char \notin DOMAIN d.index
      THEN [ok |-> TRUE, matches |-> <<>>, dict |-> d]
      ELSE
        LET cached == first_char \in DOMAIN d.entry_cache
            br == IF cached THEN [ok |-> TRUE, entries |-> <<>>]
                  ELSE BulkReadEntries(d, first_char)
        IN
        IF ~br.ok THEN [ok |-> FALSE, matches |-> <<>>, dict |-> d]
        ELSE
          LET d1 == IF cached THEN d
                    ELSE [d EXCEPT !.entry_cache = @ @@ (first_char :> br.entries),
                                   !.bulk_reads = Append(@, first_char)]
              es == d1.entry_cache[first_char]
              hit(i) == /\ start + Len(es[i].surface) <= Len(chars)
                        /\ chars[start + 1] = es[i].surface[1]
              RECURSIVE Collect(_)
              Collect(i) == IF i > Len(es) THEN <<>>
                            ELSE (IF hit(i) THEN <<<<first_char, i - 1>>>> ELSE <<>>)
                                 \o Collect(i + 1)
          IN [ok |-> TRUE, matches |-> Collect(1), dict |-> d1]

Lookup(d, chars, start) ==
    IF start >= Len(chars) THEN [ok |-> TRUE, matches |-> <<>>, dict |-> d]
    ELSE
      LET first_char == chars[start + 1] IN
      IF first_char \notin DOMAIN d.index
      THEN [ok |-> TRUE, matches |-> <<>>, dict |-> d]
      ELSE
        LET cached == first_char \in DOMAIN d.entry_cache
            br == IF cached THEN [ok |-> TRUE, entries |-> <<>>]
                  ELSE BulkReadEntries(d, first_char)
        IN
        IF ~br.ok THEN [ok |-> FALSE, matches |-> <<>>, dict |-> d]
        ELSE
          LET d1 == IF cached THEN d
                    ELSE [d EXCEPT !.entry_cache = @ @@ (first_char :> br.entries),
                                   !.bulk_reads = Append(@, first_char)]
              es == d1.entry_cache[first_char]
              hit(i) == /\ start + Len(es[i].surface) <= Len(chars)
                        /\ \A j \in 1..Len(es[i].surface) :
                              chars[start + j] = es[i].surface[j]
              RECURSIVE Collect(_)
              Collect(i) == IF i > Len(es) THEN <<>>
                            ELSE (IF hit(i) THEN <<<<first_char, i - 1>>>> ELSE <<>>)
                                 \o Collect(i + 1)
          IN [ok |-> TRUE, matches |-> Collect(1), dict |-> d1]


\* =============================================================== segmenter
\* LatticeNode.prev_node = None.
NoPrev == 0 - 1

BosNode == [start_pos |-> 0, end_pos |-> 0, entry_char |-> 0,
            entry_local_idx |-> 0, cost |-> 0, prev_node |-> NoPrev]

\* The inner loop of build_lattice for one start: each match is pushed on
\* the lattice slot of its end position.
RECURSIVE PushMatches(_, _, _, _)
PushMatches(d, lat, matches, start) ==
    IF matches = <<>> THEN lat
    ELSE
      LET m == Head(matches)
          entry == GetEntry(d, m[1], m[2]).entry
          end == start + Len(entry.surface)
      IN PushMatches(d, [lat EXCEPT ![end + 1] = Append(@, [handle |-> m, start |-> start])],
                     Tail(matches), start)

\* The fallback nodes of a position without lattice entries: one per node
\* of the previous position.
FallbackNodes(prev_nodes, pos) ==
    [i \in 1..Len(prev_nodes) |->
        [start_pos |-> pos - 1, end_pos |-> pos, entry_char |-> 0,
         entry_local_idx |-> 0, cost |-> prev_nodes[i].cost + FALLBACK_COST,
         prev_node |-> i - 1]]

\* prev_pos_id of a predecessor node.
PrevPosId(d, start_pos, prev_node) ==
    IF start_pos = 0 \/ prev_node.entry_char = 0 THEN 0
    ELSE GetEntry(d, prev_node.entry_char, prev_node.entry_local_idx).entry.pos_id

\* total_cost of an entry after a predecessor.  The sums of the model stay
\* far inside i32.
TotalCostNoConn(d, entry, start_pos, prev_node) ==
    prev_node.cost + entry.word_cost

TotalCost(d, entry, start_pos, prev_node) ==
    prev_node.cost + entry.word_cost
    + GetMatrixCost(d, PrevPosId(d, start_pos, prev_node), entry.pos_id)

\* The predecessor loop: the first predecessor of least total cost, from
\* best_cost = i32::MAX and best_prev = None.
BestPrev(d, entry, start_pos, prev_nodes) ==
    LET total(i) == TotalCost(d, entry, start_pos, prev_nodes[i])
        better == {i \in 1..Len(prev_nodes) : total(i) < 2147483647}
    IN IF better = {} THEN [best_prev |-> NoPrev, best_cost |-> 2147483647]
       ELSE LET b == CHOOSE i \in better :
                        \A j \in better : total(i) < total(j) \/ (total(i) = total(j) /\ i <= j)
            IN [best_prev |-> b - 1, best_cost |-> total(b)]

\* The entry loop of one position of the forward pass.
RECURSIVE EntryNodes(_, _, _, _, _)
EntryNodes(d, nds, items, pos, acc) ==
    IF items = <<>> THEN acc
    ELSE
      LET it == Head(items)
          rest == Tail(items)
      IN IF nds[it.start + 1] = <<>> THEN EntryNodes(d, nds, rest, pos, acc)
         ELSE
           LET entry == GetEntry(d, it.handle[1], it.handle[2]).entry
               best == BestPrev(d, entry, it.start, nds[it.start + 1])
           IN IF best.best_prev = NoPrev THEN EntryNodes(d, nds, rest, pos, acc)
              ELSE EntryNodes(d, nds, rest, pos,
                     Append(acc, [start_pos |-> it.start, end_pos |-> pos,
                                  entry_char |-> it.handle[1],
                                  entry_local_idx |-> it.handle[2],
                                  cost |-> best.best_cost,
                                  prev_node |-> best.best_prev]))

\* One iteration of "for pos in 1..=len": the nodes of position pos.
ForwardColumn(d, lat, nds, pos) ==
    IF lat[pos + 1] = <<>>
    THEN IF nds[pos] # <<>> THEN FallbackNodes(nds[pos], pos) ELSE <<>>
    ELSE EntryNodes(d, nds, lat[pos + 1], pos, <<>>)

\* min_by_key(|n| n.cost) over a non-empty column: the first node of least
\* cost, 0-based.
MinByCost(column) ==
    (CHOOSE i \in 1..Len(column) :
        \A j \in 1..Len(column) :
            column[i].cost < column[j].cost
            \/ (column[i].cost = column[j].cost /\ i <= j)) - 1

\* The test that makes backtracking emit the input character.
IsFallbackNodeStrict(node) == node.entry_char = 0 /\ node.cost > FALLBACK_COST
IsFallbackNode(node) == node.entry_char = 0 /\ node.cost >= FALLBACK_COST

\* The piece one backtracking iteration pushes: ok is FALSE when get_entry
\* or read_reading_at panics.
NodePiece(d, chars, node) ==
    IF IsFallbackNode(node)
    THEN [ok |-> TRUE, piece |-> <<chars[node.start_pos + 1]>>]
    ELSE
      LET e == GetEntry(d, node.entry_char, node.entry_local_idx) IN
      IF ~e.ok THEN [ok |-> FALSE, piece |-> <<>>]
      ELSE LET r == ReadReadingAt(d, e.entry.reading_offset, e.entry.reading_len)
           IN [ok |-> r.ok, piece |-> r.reading]

\* result.reverse(); result.join("")
JoinResultNoReverse(result) == Flatten(result)
JoinResult(result) == Flatten(Reverse(result))

\* =================================================================== state
VARIABLES
    pos_id_map,   \* compiler: context id -> pos_id
    entries,      \* compiler: the entries vector
    line,         \* compiler: the CSV line of the current loop iteration
    cstate,       \* compiler: "csv", "written" or "panicked"
    wb,           \* write_binary's strings_data, entry_records and index
    file,         \* mucab.bin
    lstate,       \* loader: "unloaded", "ok", "err" or "panic"
    dict,         \* the loaded Dictionary
    mcall,        \* the last get_matrix_cost call watched: prev_id, curr_id
                  \*   and the value returned
    pc,           \* transliterate: "idle", "lattice", "forward",
                  \*   "backtrack", "done" (returned) or "panic"
    text,         \* transliterate: chars, the characters of the input
    lattice,      \* build_lattice's lattice, slot p of 0..len at p + 1
    nodes,        \* the Viterbi columns, slot p of 0..len at p + 1
    pos,          \* start (build_lattice) or pos (forward pass)
    cur,          \* backtracking: current_pos and current_node_idx
    result,       \* backtracking: the pieces pushed so far
    walk,         \* backtracking: the nodes visited so far
    out           \* the string transliterate returned

compilerVars == <<pos_id_map, entries, line, cstate, wb, file>>
loaderVars == <<lstate, dict>>
segVars == <<pc, text, lattice, nodes, pos, cur, result, walk, out>>
vars == <<pos_id_map, entries, line, cstate, wb, file, lstate, dict, mcall,
          pc, text, lattice, nodes, pos, cur, result, walk, out>>

NoLine == [nparts |-> 0, surface |-> <<>>, left_id |-> 0, right_id |-> 0,
           cost |-> <<>>, reading |-> <<>>]
NoFile == [plain |-> <<>>, data |-> <<>>, codec_ok |-> FALSE]
NoWb == [strings_data |-> <<>>, entry_records |-> <<>>, index |-> <<>>]
NoCall == [called |-> FALSE, prev |-> 0, curr |-> 0, result |-> 0]
NoCur == [pos |-> 0, idx |-> 0]

\* No transliterate call made yet.
SegIdle ==
    /\ pc = "idle"
    /\ text = <<>>
    /\ lattice = <<>>
    /\ nodes = <<>>
    /\ pos = 0
    /\ cur = NoCur
    /\ result = <<>>
    /\ walk = <<>>
    /\ out = <<>>

\* The compiler at the top of process_csv_files, nothing loaded.
Init ==
    /\ pos_id_map = EmptyPosIdMap
    /\ entries = <<>>
    /\ line = NoLine
    /\ cstate = "csv"
    /\ wb = NoWb
    /\ file = NoFile
    /\ lstate = "unloaded"
    /\ dict = NoDict
    /\ mcall = NoCall
    /\ SegIdle

\* ------------------------------------------------------------- inputs
\* 北 (U+5317), 京 (U+4EAC), き (U+304D), た (U+305F), a (U+0061).
Bei == <<21271>>
Jing == <<20140>>
BeiJing == <<21271, 20140>>
Ki == <<12365>>
Ta == <<12383>>

CsvLine(surface, id, cost, reading) ==
    [nparts |-> 13, surface |-> surface, left_id |-> id, right_id |-> id,
     cost |-> cost, reading |-> reading]

\* Lines of the compiler runs: every filter of process_csv_files, word
\* costs around the i16 and i32 limits, and readings that overlap.
CompileLines ==
    { CsvLine(Bei, 5, <<"1", "0", "0">>, Ki \o Ta),
      CsvLine(BeiJing, 7, <<"-", "5">>, Ta \o Ta \o Ki),
      CsvLine(Jing, 5, <<"3", "2", "7", "6", "7">>, Ta \o Ta),
      CsvLine(Jing, 7, <<"3", "2", "7", "6", "8">>, Ki),
      CsvLine(Jing, 9, <<"-", "3", "2", "7", "6", "8">>, Ta),
      CsvLine(Bei, 9, <<"-", "3", "2", "7", "6", "9">>, Ta),
      CsvLine(Bei, 9, <<"2", "1", "4", "7", "4", "8", "3", "6", "4", "8">>, Ta),
      CsvLine(Jing, 5, <<"a", "b", "c">>, Ki),
      CsvLine(<<97>> \o Bei, 5, <<"1">>, Ki),
      [CsvLine(Bei, 5, <<"1">>, Ki) EXCEPT !.nparts = 12],
      [CsvLine(Bei, 5, <<"1">>, Ki) EXCEPT !.right_id = 6] }

\* matrix.def bodies.
CompileMatrices ==
    { <<>>,
      <<[prev |-> 5, curr |-> 7, cost |-> 500],
        [prev |-> 7, curr |-> 5, cost |-> -300],
        [prev |-> 5, curr |-> 8, cost |-> 1]>> }

\* ------------------------------------------------------------ compiler
\* main's "matrix_size as u16", the S of the header.
HeaderMatrixSize(matrix_size) == matrix_size % 65536

\* One iteration of the line loop of process_csv_files, on a line of L,
\* while fewer than cap entries are retained.
ProcessLine(L, cap) ==
    /\ cstate = "csv"
    /\ Len(entries) < cap
    /\ \E l \in L :
         LET st == ProcessLineOp([map |-> pos_id_map, entries |-> entries,
                                  panicked |-> FALSE], l)
         IN /\ line' = l
            /\ pos_id_map' = st.map
            /\ entries' = st.entries
            /\ cstate' = IF st.panicked THEN "panicked" ELSE "csv"
    /\ UNCHANGED <<wb, file, lstate, dict, mcall, segVars>>

\* The end of the line loop: the sort that ends process_csv_files, then
\* main's load_matrix and write_binary.
FinishCompile(M) ==
    /\ cstate = "csv"
    /\ \E triples \in M :
         LET sorted == SortEntries(entries)
             m == LoadMatrix(triples, pos_id_map)
             w == WriteBinary(sorted, m.matrix, HeaderMatrixSize(m.matrix_size))
         IN /\ entries' = sorted
            /\ wb' = [strings_data |-> w.strings_data,
                      entry_records |-> w.entry_records,
                      index |-> w.index]
            /\ file' = w.file
    /\ cstate' = "written"
    /\ UNCHANGED <<pos_id_map, line, lstate, dict, mcall, segVars>>

\* -------------------------------------------------------------- loader
\* Dictionary::load of the file on disk.
LoadDictionary ==
    /\ cstate = "written"
    /\ lstate = "unloaded"
    /\ LET r == Load(file)
       IN /\ lstate' = r.status
          /\ dict' = r.dict
    /\ UNCHANGED <<compilerVars, mcall, segVars>>

\* ----------------------------------------------------------- segmenter
\* transliterate is called: the empty text returns at once, any other
\* enters build_lattice.
Call(T) ==
    /\ lstate = "ok"
    /\ pc \in {"idle", "done"}
    /\ \E t \in T :
         /\ text' = t
         /\ pc' = IF t = <<>> THEN "done" ELSE "lattice"
         /\ lattice' = IF t = <<>> THEN <<>> ELSE [p \in 1..(Len(t) + 1) |-> <<>>]
    /\ nodes' = <<>>
    /\ pos' = 0
    /\ cur' = NoCur
    /\ result' = <<>>
    /\ walk' = <<>>
    /\ out' = <<>>
    /\ UNCHANGED <<compilerVars, loaderVars, mcall>>

\* One iteration of "for start in 0..len" of build_lattice; after the last
\* one transliterate seeds nodes[0] with the BOS node.
LatticeStep ==
    /\ pc = "lattice"
    /\ LET r == Lookup(dict, text, pos) IN
       IF ~r.ok
       THEN /\ pc' = "panic"
            /\ UNCHANGED <<dict, lattice, nodes, pos>>
       ELSE /\ dict' = r.dict
            /\ lattice' = PushMatches(r.dict, lattice, r.matches, pos)
            /\ IF pos + 1 = Len(text)
               THEN /\ pc' = "forward"
                    /\ pos' = 1
                    /\ nodes' = [p \in 1..(Len(text) + 1) |->
                                    IF p = 1 THEN <<BosNode>> ELSE <<>>]
               ELSE /\ pc' = "lattice"
                    /\ pos' = pos + 1
                    /\ UNCHANGED nodes
    /\ UNCHANGED <<compilerVars, lstate, mcall, text, cur, result, walk, out>>

\* One iteration of "for pos in 1..=len" of the forward pass.
ForwardStep ==
    /\ pc = "forward"
    /\ pos <= Len(text)
    /\ nodes' = [nodes EXCEPT ![pos + 1] = ForwardColumn(dict, lattice, nodes, pos)]
    /\ pos' = pos + 1
    /\ UNCHANGED <<compilerVars, loaderVars, mcall, pc, text, lattice, cur,
                   result, walk, out>>

\* After the forward pass: return the text when nodes[len] is empty, else
\* pick the node of least cost.
SelectBest ==
    /\ pc = "forward"
    /\ pos = Len(text) + 1
    /\ IF nodes[Len(text) + 1] = <<>>
       THEN /\ out' = text
            /\ pc' = "done"
            /\ UNCHANGED cur
       ELSE /\ cur' = [pos |-> Len(text), idx |-> MinByCost(nodes[Len(text) + 1])]
            /\ pc' = "backtrack"
            /\ UNCHANGED out
    /\ UNCHANGED <<compilerVars, loaderVars, mcall, text, lattice, nodes, pos,
                   result, walk>>

\* One iteration of "while current_pos > 0"; the iteration that ends the
\* loop also reverses and joins the pieces and returns.
BacktrackStep ==
    /\ pc = "backtrack"
    /\ cur.pos > 0
    /\ LET node == nodes[cur.pos + 1][cur.idx + 1] IN
       IF node.start_pos = 0 /\ node.end_pos = 0
       THEN /\ out' = JoinResult(result)
            /\ pc' = "done"
            /\ UNCHANGED <<cur, result, walk>>
       ELSE
         LET p == NodePiece(dict, text, node) IN
         IF ~p.ok
         THEN /\ pc' = "panic"
              /\ walk' = Append(walk, node)
              /\ UNCHANGED <<cur, result, out>>
         ELSE /\ result' = Append(result, p.piece)
              /\ walk' = Append(walk, node)
              /\ IF node.prev_node # NoPrev /\ node.start_pos > 0
                 THEN /\ cur' = [pos |-> node.start_pos, idx |-> node.prev_node]
                      /\ UNCHANGED <<pc, out>>
                 ELSE /\ cur' = IF node.prev_node # NoPrev
                                THEN [pos |-> node.start_pos, idx |-> node.prev_node]
                                ELSE cur
                      /\ out' = JoinResult(Append(result, p.piece))
                      /\ pc' = "done"
    /\ UNCHANGED <<compilerVars, loaderVars, mcall, text, lattice, nodes, pos>>

\* --------------------------------------------------------------- inputs
\* 北, 京 and a.
Alphabet == {21271, 20140, 97}

RECURSIVE SeqsUpTo(_, _)
SeqsUpTo(S, n) ==
    IF n = 0 THEN {<<>>}
    ELSE LET shorter == SeqsUpTo(S, n - 1)
         IN shorter \cup {Append(t, c) : t \in {u \in shorter : Len(u) = n - 1}, c \in S}

Texts == SeqsUpTo(Alphabet, MaxTextLen)

\* A lexicon with homographs of different classes, a word that two shorter
\* ones cover, a surface with a non-Han tail, and a negative word cost.
SegLines ==
    { CsvLine(Bei, 1, <<"1", "0", "0">>, Ki \o Ta),
      CsvLine(Bei, 2, <<"1", "2", "0">>, Ki),
      CsvLine(Jing, 2, <<"-", "5">>, Ta),
      CsvLine(BeiJing, 1, <<"1", "5", "0">>, Ta \o Ki),
      CsvLine(Bei \o <<97>>, 2, <<"1", "0">>, Ki \o Ta) }

SegMatrices ==
    { <<>>,
      <<[prev |-> 1, curr |-> 2, cost |-> 500],
        [prev |-> 2, curr |-> 2, cost |-> -300],
        [prev |-> 2, curr |-> 1, cost |-> 40]>> }

\* The whole pipeline: compile, load, transliterate.
Next ==
    \/ ProcessLine(SegLines, MaxEntries)
    \/ FinishCompile(SegMatrices)
    \/ LoadDictionary
    \/ Call(Texts)
    \/ LatticeStep
    \/ ForwardStep
    \/ SelectBest
    \/ BacktrackStep

Spec == Init /\ [][Next]_vars

\* Compiler runs over CompileLines, then the load and calls on texts of
\* one character, which read every block and reading of the file.
NextCompile ==
    \/ ProcessLine(CompileLines, MaxEntries)
    \/ FinishCompile(CompileMatrices)
    \/ LoadDictionary
    \/ Call(SeqsUpTo(Alphabet, 1))
    \/ LatticeStep
    \/ ForwardStep
    \/ SelectBest
    \/ BacktrackStep

SpecCompile == Init /\ [][NextCompile]_vars



\* --------------------------------------------------- interning at the limit
\* The compiler in the line loop after MAX_POS_IDS - 2 lines, each of a
\* context id of its own (1, 2, ...): the state from which the capacity
\* check is within reach.
NearCapacity == MAX_POS_IDS - 2

InitIntern ==
    /\ \/ /\ pos_id_map = EmptyPosIdMap
          /\ entries = <<>>
          /\ line = NoLine
       \/ /\ pos_id_map = {[id |-> i, pos_id |-> i - 1] : i \in 1..NearCapacity}
          /\ entries = [i \in 1..NearCapacity |->
                          [surface |-> Bei, pos_id |-> i - 1, cost |-> 1,
                           reading |-> Ki]]
          /\ line = CsvLine(Bei, NearCapacity, <<"1">>, Ki)
    /\ cstate = "csv"
    /\ wb = NoWb
    /\ file = NoFile
    /\ lstate = "unloaded"
    /\ dict = NoDict
    /\ mcall = NoCall
    /\ SegIdle

\* Lines of known and of new context ids, and one the Han filter skips.
InternLines ==
    { CsvLine(Bei, 1, <<"1">>, Ki),
      CsvLine(Jing, 70001, <<"2">>, Ta),
      CsvLine(Bei, 70002, <<"3">>, Ki),
      CsvLine(Jing, 70003, <<"4">>, Ta),
      CsvLine(<<97>>, 70004, <<"5">>, Ta) }

NextIntern ==
    ProcessLine(InternLines,
                (IF Len(entries) >= NearCapacity THEN NearCapacity ELSE 0)
                + MaxInternEntries)

SpecIntern == InitIntern /\ [][NextIntern]_vars

\* ------------------------------------------------- get_matrix_cost calls
\* Largest prev_id and curr_id of the calls watched.
MaxPosId == 2

\* Lines of two context ids, and matrix.def bodies over them.
MatrixLines ==
    { CsvLine(Bei, 1, <<"1", "0", "0">>, Ki),
      CsvLine(Jing, 2, <<"-", "5">>, Ta),
      CsvLine(Bei, 2, <<"7">>, Ta) }

MatrixDefs ==
    { <<>>,
      <<[prev |-> 1, curr |-> 2, cost |-> 7]>>,
      <<[prev |-> 2, curr |-> 1, cost |-> -3]>>,
      <<[prev |-> 1, curr |-> 1, cost |-> 11],
        [prev |-> 1, curr |-> 2, cost |-> 12],
        [prev |-> 2, curr |-> 1, cost |-> 21],
        [prev |-> 2, curr |-> 2, cost |-> 22]>> }

\* A call of Dictionary::get_matrix_cost on the loaded dictionary.
MatrixCost ==
    /\ lstate = "ok"
    /\ \E prev_id \in 0..MaxPosId, curr_id \in 0..MaxPosId :
         mcall' = [called |-> TRUE, prev |-> prev_id, curr |-> curr_id,
                   result |-> GetMatrixCost(dict, prev_id, curr_id)]
    /\ UNCHANGED <<compilerVars, loaderVars, segVars>>

NextMatrix ==
    \/ ProcessLine(MatrixLines, MaxEntries)
    \/ FinishCompile(MatrixDefs)
    \/ LoadDictionary
    \/ MatrixCost

SpecMatrix == Init /\ [][NextMatrix]_vars

\* ------------------------------------------------- loading damaged files
\* process_csv_files over a sequence of lines.
RECURSIVE ProcessLines(_, _)
ProcessLines(st, lines) ==
    IF lines = <<>> \/ st.panicked THEN st
    ELSE ProcessLines(ProcessLineOp(st, Head(lines)), Tail(lines))

\* The converter's run that wrote the file the damaged ones derive from:
\* the lines of 北 and 京 and one matrix.def triple, through
\* process_csv_files, load_matrix and write_binary.
PristineLines ==
    <<CsvLine(Bei, 1, <<"1", "0", "0">>, Ki \o Ta),
      CsvLine(Jing, 2, <<"-", "5">>, Ta)>>

PristineCsv ==
    ProcessLines([map |-> EmptyPosIdMap, entries |-> <<>>, panicked |-> FALSE],
                 PristineLines)

PristineEntries == SortEntries(PristineCsv.entries)

PristineMatrix ==
    LoadMatrix(<<[prev |-> 1, curr |-> 2, cost |-> 500]>>, PristineCsv.map)

PristineWritten ==
    WriteBinary(PristineEntries, PristineMatrix.matrix,
                HeaderMatrixSize(PristineMatrix.matrix_size))

PristineFile == PristineWritten.file

\* The magic reads "XUCA".
BadMagicFile == [PristineFile EXCEPT !.plain[1] = 88]

\* The file ends inside the 16-byte header.
TruncatedHeaderFiles ==
    {[PristineFile EXCEPT !.plain = SubSeq(@, 1, n)] : n \in {0, 3, HEADER_SIZE - 1}}

\* The first byte of the first entry's surface is 0xFF.
BadSurfaceFile == [PristineFile EXCEPT !.data[2] = 255]

\* The last byte of the string pool is 0xFF.
BadReadingFile == [PristineFile EXCEPT !.data[Len(PristineFile.data)] = 255]

\* The compressed segment is no zeekstd stream: Decoder::new fails.
DecoderErrorFile == [PristineFile EXCEPT !.codec_ok = FALSE]

\* The file ends inside the index directory.
TruncatedIndexFile ==
    [PristineFile EXCEPT !.plain = SubSeq(@, 1, Len(@) - 1)]

\* The first index record's scalar is the surrogate U+D800.
BadScalarFile ==
    LET p == HEADER_SIZE + 2 * Len(PristineMatrix.matrix) + 4
    IN [PristineFile EXCEPT !.plain[p + 1] = 0, !.plain[p + 2] = 216,
                             !.plain[p + 3] = 0, !.plain[p + 4] = 0]

LoadFiles ==
    {PristineFile, BadMagicFile, BadSurfaceFile, BadReadingFile,
     DecoderErrorFile, TruncatedIndexFile, BadScalarFile}
       \cup TruncatedHeaderFiles

\* The converter has run; the file found on disk is any of LoadFiles.
InitLoad ==
    /\ pos_id_map = PristineCsv.map
    /\ entries = PristineEntries
    /\ line = PristineLines[Len(PristineLines)]
    /\ cstate = "written"
    /\ wb = [strings_data |-> PristineWritten.strings_data,
             entry_records |-> PristineWritten.entry_records,
             index |-> PristineWritten.index]
    /\ file \in LoadFiles
    /\ lstate = "unloaded"
    /\ dict = NoDict
    /\ mcall = NoCall
    /\ SegIdle

NextLoad ==
    \/ LoadDictionary
    \/ Call(SeqsUpTo(Alphabet, MaxLoadTextLen))
    \/ LatticeStep
    \/ ForwardStep
    \/ SelectBest
    \/ BacktrackStep

SpecLoad == InitLoad /\ [][NextLoad]_vars

\* ------------------------------------------------------- a long text
\* best_cost of the predecessor loop starts at i32::MAX; a word cost and a
\* matrix cost are at most i16::MAX.
I32_MAX == 2147483647
I16_MAX == 32767

\* The lexicon 京 and 北, both of word cost i16::MAX, with the matrix cells
\* (京, 京) = i16::MAX and (京, 北) = LongLastConn, through
\* process_csv_files, load_matrix and write_binary.
LongLines ==
    <<CsvLine(Jing, 1, <<"3", "2", "7", "6", "7">>, Ta),
      CsvLine(Bei, 2, <<"3", "2", "7", "6", "7">>, Ki)>>

\* Cost of one 京 after a 京 or a fallback: word cost and matrix cell.
LongStep == 2 * I16_MAX

\* The 京s of the text: as many as fit under i32::MAX after one fallback.
LongRun == (I32_MAX - FALLBACK_COST) \div LongStep

\* The cell (京, 北): what is left under i32::MAX, less the word cost of 北.
LongLastConn == ((I32_MAX - FALLBACK_COST) % LongStep) - I16_MAX

LongCsv ==
    ProcessLines([map |-> EmptyPosIdMap, entries |-> <<>>, panicked |-> FALSE],
                 LongLines)

LongEntries == SortEntries(LongCsv.entries)

LongMatrix ==
    LoadMatrix(<<[prev |-> 1, curr |-> 1, cost |-> I16_MAX],
                 [prev |-> 1, curr |-> 2, cost |-> LongLastConn]>>,
               LongCsv.map)

LongWritten ==
    WriteBinary(LongEntries, LongMatrix.matrix,
                HeaderMatrixSize(LongMatrix.matrix_size))

\* 'a', then 京 LongRun times, then 北.
LongText ==
    [i \in 1..(LongRun + 2) |->
        IF i = 1 THEN 97 ELSE IF i <= LongRun + 1 THEN 20140 ELSE 21271]

\* The dictionary after build_lattice on LongText: loaded from the file,
\* the blocks of 京 and 北 cached in the order of their first lookups.
LongDict ==
    Lookup(Lookup(Load(LongWritten.file).dict, Jing, 0).dict, Bei, 0).dict

\* transliterate(LongText) in its forward pass, about to fill the last
\* column: 'a' is no index key, so column 1 holds its fallback node; each
\* 京 has the one lattice entry and the one node of its position; and
\* lattice[N] holds 北.
LongForward ==
    /\ pos_id_map = LongCsv.map
    /\ entries = LongEntries
    /\ line = LongLines[Len(LongLines)]
    /\ cstate = "written"
    /\ wb = [strings_data |-> LongWritten.strings_data,
             entry_records |-> LongWritten.entry_records,
             index |-> LongWritten.index]
    /\ file = LongWritten.file
    /\ lstate = "ok"
    /\ dict = LongDict
    /\ mcall = NoCall
    /\ pc = "forward"
    /\ text = LongText
    /\ lattice = [p \in 1..(LongRun + 3) |->
                    IF p <= 2 THEN <<>>
                    ELSE <<[handle |-> <<LongText[p - 1], 0>>, start |-> p - 2]>>]
    /\ nodes = [p \in 1..(LongRun + 3) |->
                  IF p = 1 THEN <<BosNode>>
                  ELSE IF p = 2
                  THEN FallbackNodes(<<BosNode>>, 1)
                  ELSE IF p <= LongRun + 2
                  THEN <<[start_pos |-> p - 2, end_pos |-> p - 1,
                          entry_char |-> 20140, entry_local_idx |-> 0,
                          cost |-> FALLBACK_COST + (p - 2) * LongStep,
                          prev_node |-> 0]>>
                  ELSE <<>>]
    /\ pos = LongRun + 2
    /\ cur = NoCur
    /\ result = <<>>
    /\ walk = <<>>
    /\ out = <<>>

\* The pipeline from its start, or the call on LongText where LongRun + 1
\* iterations of the forward pass have brought it.
InitLongText == Init \/ LongForward

SpecLongText == InitLongText /\ [][Next]_vars

\* ================================================================== claims
\* ---------------------------------------------------------------- paths
\* The edges of the lattice that end at position p: the entries of
\* lattice[p], or the single-character fallback when there is none.
EdgesInto(p) ==
    IF lattice[p + 1] = <<>>
    THEN {[fb |-> TRUE, ch |-> 0, idx |-> 0, start |-> p - 1, end |-> p]}
    ELSE {[fb |-> FALSE, ch |-> lattice[p + 1][i].handle[1],
           idx |-> lattice[p + 1][i].handle[2], start |-> lattice[p + 1][i].start,
           end |-> p] : i \in 1..Len(lattice[p + 1])}

\* Every path of edges from the BOS position 0 to position p.
RECURSIVE PathsTo(_)
PathsTo(p) ==
    IF p = 0 THEN {<<>>}
    ELSE UNION {{Append(q, e) : q \in PathsTo(e.start)} : e \in EdgesInto(p)}

EdgeEntry(e) == dict.entry_cache[e.ch][e.idx + 1]

\* Cost of the i-th edge of a path: 10 000 for a fallback, else the word
\* cost plus the matrix cell of (previous pos_id, pos_id), the previous
\* pos_id being 0 after BOS and after a fallback.
EdgeCost(path, i) ==
    IF path[i].fb THEN 10000
    ELSE LET prev_pos_id == IF i = 1 \/ path[i - 1].fb THEN 0
                            ELSE EdgeEntry(path[i - 1]).pos_id
             curr == EdgeEntry(path[i]).pos_id
             S == dict.matrix_size
         IN EdgeEntry(path[i]).word_cost
            + (IF prev_pos_id < S /\ curr < S
               THEN dict.matrix[prev_pos_id * S + curr + 1] ELSE 0)

PathCost(path) == SumSeq([i \in 1..Len(path) |-> EdgeCost(path, i)])

\* The path backtracking walked, first edge first.
WalkPath ==
    [i \in 1..Len(walk) |->
        LET n == walk[Len(walk) + 1 - i]
        IN [fb |-> n.entry_char = 0, ch |-> n.entry_char,
            idx |-> n.entry_local_idx, start |-> n.start_pos, end |-> n.end_pos]]

\* C1: when backtracking starts, the chosen node of nodes[N] carries the
\* least cost of any lattice path from BOS to N; and when transliterate
\* has returned, the path it walked is a lattice path from BOS to N whose
\* cost, summed edge by edge, is that least cost.
C1_MinimumCostPath ==
    /\ (pc = "backtrack" /\ walk = <<>>) =>
          \A q \in PathsTo(Len(text)) :
              nodes[cur.pos + 1][cur.idx + 1].cost <= PathCost(q)
    /\ (pc = "done" /\ walk # <<>>) =>
          /\ WalkPath \in PathsTo(Len(text))
          /\ \A q \in PathsTo(Len(text)) : PathCost(WalkPath) <= PathCost(q)

\* A returned call on a lattice with three or more paths, some of them
\* dearer than the one walked, the walk taking two dictionary entries.
C1_Witness ==
    /\ pc = "done"
    /\ Len(walk) >= 2
    /\ \A i \in 1..Len(walk) : walk[i].entry_char # 0
    /\ Cardinality(PathsTo(Len(text))) >= 3
    /\ \E q \in PathsTo(Len(text)) : PathCost(q) > PathCost(WalkPath)
    /\ \E i \in 1..Len(dict.matrix) : dict.matrix[i] # 0

\* C2: transliterate never panics.
C2_NeverPanics == pc # "panic"

\* ------------------------------------------------------------- output
NonHan(s) == SelectSeq(s, LAMBDA c : ~IsHan(c))

RECURSIVE IsSubseq(_, _)
IsSubseq(a, b) ==
    IF a = <<>> THEN TRUE
    ELSE IF b = <<>> THEN FALSE
    ELSE IF Head(a) = Head(b) THEN IsSubseq(Tail(a), Tail(b))
    ELSE IsSubseq(a, Tail(b))

\* The compiled entries whose surface starts with ch, in sorted order.
CompiledBlock(ch) == SelectSeq(entries, LAMBDA e : e.surface[1] = ch)

\* Length in characters of the piece of a path edge: one character for a
\* fallback, the compiled reading for an entry.
PieceLen(e) == IF e.fb THEN 1 ELSE Len(CompiledBlock(e.ch)[e.idx + 1].reading)

\* Characters of the output that precede the piece of the k-th edge.
OutOffset(path, k) == SumSeq([j \in 1..(k - 1) |-> PieceLen(path[j])])

\* C3 as stated: every non-Han character of the input is in the result,
\* in the input's order.
C3_NonHanPreserved ==
    pc = "done" => IsSubseq(NonHan(text), out)

\* C3 amended: when transliterate has returned, every non-Han character
\* of the input that no matched dictionary surface of the walked path
\* covers stands unchanged in the result, at the place of its segment.
C3_UnmatchedNonHanPreserved ==
    pc = "done" =>
       IF walk = <<>> THEN out = text
       ELSE /\ Len(out) = OutOffset(WalkPath, Len(walk) + 1)
            /\ \A k \in 1..Len(walk) :
                  (WalkPath[k].fb /\ ~IsHan(text[WalkPath[k].start + 1])) =>
                      out[OutOffset(WalkPath, k) + 1] = text[WalkPath[k].start + 1]

\* A returned call whose path has a reading before an unmatched non-Han
\* character.
C3_Witness ==
    /\ pc = "done"
    /\ Len(walk) >= 2
    /\ \E k \in 2..Len(walk) :
          /\ WalkPath[k].fb
          /\ ~WalkPath[k - 1].fb
          /\ ~IsHan(text[WalkPath[k].start + 1])
          /\ OutOffset(WalkPath, k) # WalkPath[k].start

\* C5: a call on a text without Han characters does not panic and returns
\* the text.
C5_NoHanIdentity ==
    (\A i \in 1..Len(text) : ~IsHan(text[i])) =>
        /\ pc # "panic"
        /\ pc = "done" => out = text

\* A returned call on a non-empty text without Han characters, the
\* dictionary holding entries.
C5_Witness ==
    /\ pc = "done"
    /\ Len(text) >= 2
    /\ \A i \in 1..Len(text) : ~IsHan(text[i])
    /\ dict.num_entries >= 1
    /\ out = text


\* ------------------------------------------------------------ round trip
\* What the loader makes of a compiled entry, but for the reading's place.
SameEntry(read, compiled) ==
    /\ read.surface = compiled.surface
    /\ read.pos_id = compiled.pos_id
    /\ read.word_cost = compiled.cost

ReadsBack(read, compiled) ==
    /\ SameEntry(read, compiled)
    /\ ReadReadingAt(dict, read.reading_offset, read.reading_len)
         = [ok |-> TRUE, reading |-> compiled.reading]

BlockReadsBack(read, ch) ==
    /\ Len(read) = Len(CompiledBlock(ch))
    /\ \A j \in 1..Len(read) : ReadsBack(read[j], CompiledBlock(ch)[j])

\* C4: once the compiled file is loaded, bulk_read_entries of every index
\* key succeeds, the blocks hold num_entries entries in all, the compiled
\* entries of each first character in sorted order with their surface,
\* pos_id and word cost, and read_reading_at returns each one's reading;
\* the blocks lookup has cached are those.
C4_RoundTrip ==
    lstate = "ok" =>
       /\ dict.num_entries = Len(entries)
       /\ DOMAIN dict.index = {entries[i].surface[1] : i \in 1..Len(entries)}
       /\ \A ch \in DOMAIN dict.index :
             /\ BulkReadEntries(dict, ch).ok
             /\ BlockReadsBack(BulkReadEntries(dict, ch).entries, ch)
       /\ \A ch \in DOMAIN dict.entry_cache :
             BlockReadsBack(dict.entry_cache[ch], ch)

\* A loaded file of two entries with different pos_ids, a negative cost
\* and different readings, both blocks read by lookup.
C4_Witness ==
    /\ lstate = "ok"
    /\ Len(entries) = 2
    /\ entries[1].pos_id # entries[2].pos_id
    /\ entries[1].reading # entries[2].reading
    /\ \E i \in 1..2 : entries[i].cost < 0
    /\ DOMAIN dict.entry_cache = DOMAIN dict.index
    /\ Cardinality(DOMAIN dict.index) = 2

\* ------------------------------------------------------------ word cost
\* The digits of a numeral without its sign, or <<>> when the field is no
\* numeral (an optional sign, then one or more digits).
NumeralDigits(field) ==
    LET ds == IF field # <<>> /\ Head(field) \in {"+", "-"} THEN Tail(field)
              ELSE field
    IN IF ds # <<>> /\ \A i \in 1..Len(ds) : ds[i] \in Range(Digits)
       THEN ds ELSE <<>>

RECURSIVE DigitsValue(_)
DigitsValue(ds) ==
    IF ds = <<>> THEN 0
    ELSE DigitsValue(SubSeq(ds, 1, Len(ds) - 1)) * 10 + DigitVal(ds[Len(ds)])

\* The fields of the model carry no leading zeros: a numeral of six or
\* more digits is beyond i16.
RepresentableAsI16(field) ==
    LET ds == NumeralDigits(field) IN
    /\ ds # <<>>
    /\ Len(ds) <= 5
    /\ IF Head(field) = "-" THEN DigitsValue(ds) <= 32768
       ELSE DigitsValue(ds) <= 32767

FieldValue(field) ==
    IF Head(field) = "-" THEN 0 - DigitsValue(NumeralDigits(field))
    ELSE DigitsValue(NumeralDigits(field))

\* C8: an iteration of the line loop on a line whose word-cost field is
\* not representable as an i16 adds no entry, and an entry it adds has
\* the numeric value of the field as its cost.
C8_CostFieldFilter ==
    [][(cstate = "csv" /\ cstate' = "csv" /\ line' \in CompileLines) =>
          /\ ~RepresentableAsI16(line'.cost) => entries' = entries
          /\ entries' # entries =>
                entries'[Len(entries')].cost = FieldValue(line'.cost)]_vars

\* ---------------------------------------------------------- string pool
\* The pool as it was before entry i was packed.
PoolBefore(i) ==
    IF i = 1 THEN <<>>
    ELSE SubSeq(wb.strings_data, 1,
                wb.entry_records[i - 1].reading_offset
                + wb.entry_records[i - 1].reading_len)

\* C10: after write_binary, every entry's (reading_offset, reading_len)
\* lies inside the pool and spans the bytes of its reading, and the
\* overlap each entry reused is the longest suffix of the pool before it
\* that is a prefix of its reading.
C10_PoolOffsets ==
    cstate = "written" =>
       /\ Len(wb.entry_records) = Len(entries)
       /\ \A i \in 1..Len(entries) :
             LET r == wb.entry_records[i]
                 rb == Utf8(entries[i].reading)
                 before == PoolBefore(i)
                 overlap == Len(before) - r.reading_offset
             IN /\ r.reading_offset + r.reading_len <= Len(wb.strings_data)
                /\ SubSeq(wb.strings_data, r.reading_offset + 1,
                          r.reading_offset + r.reading_len) = rb
                /\ overlap >= 0
                /\ \A k \in (overlap + 1)..Min(Len(before), Len(rb)) :
                      SubSeq(before, Len(before) - k + 1, Len(before))
                        # SubSeq(rb, 1, k)

\* A pool in which the second reading reuses the longer of two suffixes
\* that are its prefix, and appends the rest.
C10_Witness ==
    /\ cstate = "written"
    /\ Len(entries) = 2
    /\ LET before == PoolBefore(2)
           rb == Utf8(entries[2].reading)
           overlap == Len(before) - wb.entry_records[2].reading_offset
       IN /\ overlap > 0
          /\ overlap < Len(rb)
          /\ \E k \in 1..(overlap - 1) :
                SubSeq(before, Len(before) - k + 1, Len(before)) = SubSeq(rb, 1, k)


\* -------------------------------------------------------------- interning
\* A line that passes every filter before the id is interned.
ReachesInterning(l) ==
    /\ l.nparts >= 13
    /\ HanRegexMatch(l.surface)
    /\ l.left_id = l.right_id
    /\ ~CostOutOfRange(ParseCost(l.cost))

\* C9: an iteration of the line loop that interns a new context id gives
\* it the number of ids interned before (0, 1, 2, ... in first-come order)
\* while fewer than 65 535 are interned, and panics when 65 535 are; a
\* known id keeps its pos_id; and the S of the header, the number of ids
\* as a u16, is the number of ids.
C9_SequentialInterning ==
    [][(cstate = "csv" /\ line' \in InternLines /\ ReachesInterning(line')) =>
          LET n == Cardinality(pos_id_map)
              id == line'.left_id
          IN /\ IF \E p \in pos_id_map : p.id = id
                THEN /\ cstate' = "csv"
                     /\ pos_id_map' = pos_id_map
                     /\ [id |-> id, pos_id |-> entries'[Len(entries')].pos_id]
                           \in pos_id_map
                ELSE IF n < 65535
                THEN /\ cstate' = "csv"
                     /\ pos_id_map' = pos_id_map \cup {[id |-> id, pos_id |-> n]}
                     /\ entries'[Len(entries')].pos_id = n
                ELSE cstate' = "panicked"
             /\ cstate' = "csv" =>
                   LET n1 == Cardinality(pos_id_map')
                   IN /\ n1 <= 65535
                      /\ HeaderMatrixSize(n1) = n1
                      /\ \A p \in pos_id_map' : p.pos_id < n1
      ]_vars

\* The line loop with 65 535 ids interned, the last one as pos_id 65 534.
C9_Witness ==
    /\ cstate = "csv"
    /\ Cardinality(pos_id_map) = 65535
    /\ entries[Len(entries)].pos_id = 65534
    /\ HeaderMatrixSize(Cardinality(pos_id_map)) = 65535

\* ---------------------------------------------------------------- C6
\* C6: get_matrix_cost(prev, curr) returns 0 whenever prev >= S or
\* curr >= S, and the cell M[prev*S + curr] when both are below S.
C6_BoundsChecked ==
    mcall.called =>
        LET S == dict.matrix_size IN
        mcall.result = IF mcall.prev < S /\ mcall.curr < S
                       THEN dict.matrix[mcall.prev * S + mcall.curr + 1]
                       ELSE 0

\* ---------------------------------------------------------------- C7
\* The damaged files the claim names.
C7Files ==
    {BadMagicFile, BadSurfaceFile, BadReadingFile, DecoderErrorFile}
       \cup TruncatedHeaderFiles

\* C7: for a file with an invalid magic, a truncated header, invalid UTF-8
\* in a surface or a reading, or a decoder error, Dictionary::load returns
\* an error, and neither the load nor a later read panics.
C7_DamagedFilesRejected ==
    file \in C7Files => (lstate \in {"unloaded", "err"} /\ pc # "panic")

\* ---------------------------------------------------------------- C11
\* The positions of the sorted entries whose surface starts with ch.
BlockPositions(ch) == {i \in 1..Len(entries) : entries[i].surface[1] = ch}

\* Bytes of the entry record of a compiled entry: the length byte, the
\* surface in UTF-8, nine bytes of metadata.
CompiledRecordSize(e) == 1 + Len(Utf8(e.surface)) + 9

MatchPositions(i) ==
    LET block == CompiledBlock(text[i + 1])
    IN {j \in 1..Len(block) :
          /\ i + Len(block[j].surface) <= Len(text)
          /\ SubSeq(text, i + 1, i + Len(block[j].surface)) = block[j].surface}

\* C12: on the loaded dictionary, for the text of the call and every
\* start i, lookup returns the handles (first_char, local_idx) of exactly
\* the entries of the block of the character at i whose surface equals
\* the text from i on, in the order of the block; and the empty list when
\* i is at or past the end of the text or the character is no index key.
C12_LookupExact ==
    lstate = "ok" =>
       \A i \in 0..(Len(text) + 1) :
          LET r == Lookup(dict, text, i) IN
          /\ r.ok
          /\ IF i >= Len(text) \/ text[i + 1] \notin DOMAIN dict.index
             THEN r.matches = <<>>
             ELSE /\ Len(r.matches) = Cardinality(MatchPositions(i))
                  /\ \A k \in 1..Len(r.matches) :
                        /\ r.matches[k][1] = text[i + 1]
                        /\ r.matches[k][2] + 1 \in MatchPositions(i)
                  /\ \A k \in 1..Len(r.matches), l \in 1..Len(r.matches) :
                        k < l => r.matches[k][2] < r.matches[l][2]

\* build_lattice has run on a text at whose start the block holds two
\* entries and lookup matched the second alone, which the lattice holds.
C12_Witness ==
    /\ pc = "forward"
    /\ Len(CompiledBlock(text[1])) = 2
    /\ Lookup(dict, text, 0).matches = <<<<text[1], 1>>>>
    /\ \E e \in 1..Len(text) :
          lattice[e + 1] = <<[handle |-> <<text[1], 1>>, start |-> 0]>>

\* ---------------------------------------------------------------- C13
\* C13: over the calls on one loaded dictionary, no step changes the
\* matrix, its size or the index; a block in the entry cache stays there
\* with the same entries, so a handle keeps denoting the same entry; and
\* the blocks cached are those bulk-read from the decoder, each read once.
C13_CacheAppendOnly ==
    [][(lstate = "ok" /\ lstate' = "ok") =>
          /\ dict'.matrix = dict.matrix
          /\ dict'.matrix_size = dict.matrix_size
          /\ dict'.index = dict.index
          /\ \A ch \in DOMAIN dict.entry_cache :
                /\ ch \in DOMAIN dict'.entry_cache
                /\ dict'.entry_cache[ch] = dict.entry_cache[ch]
          /\ \A k \in 1..Len(dict'.bulk_reads), l \in 1..Len(dict'.bulk_reads) :
                k # l => dict'.bulk_reads[k] # dict'.bulk_reads[l]
          /\ Range(dict'.bulk_reads) = DOMAIN dict'.entry_cache
      ]_vars

\* A call on a text of one character twice, after an earlier call cached
\* the block of another: two blocks read, three or more lookups served.
C13_Witness ==
    /\ pc = "forward"
    /\ Len(text) = 2
    /\ text[1] = text[2]
    /\ Len(dict.bulk_reads) = 2
    /\ dict.bulk_reads[2] = text[1]
    /\ \A ch \in DOMAIN dict.entry_cache : dict.entry_cache[ch] # <<>>

\* ---------------------------------------------------------------- C14
\* C14: in a call on a non-empty text, every column the forward pass has
\* filled holds a node, and the call does not return by the branch that
\* hands back the input because nodes[N] is empty.
C14_NeverDisconnected ==
    /\ (pc \in {"forward", "backtrack", "done"} /\ text # <<>>) =>
          \A p \in 0..Len(text) : p < pos => nodes[p + 1] # <<>>
    /\ (pc = "done" /\ text # <<>>) => walk # <<>>

====
